---- MODULE Spec2Model ----
(***************************************************************************)
(* Request-lifecycle model of ChatGPTViewProvider (src/src/extension.ts):  *)
(* the provider's fields, the prompts in flight against the backend, the   *)
(* messages posted to the webview panel, and the configuration watcher.    *)
(*                                                                         *)
(* Text is a sequence of non-empty string pieces; concatenation is \o and  *)
(* the empty string is << >>.                                              *)
(***************************************************************************)
EXTENDS Naturals, Sequences, FiniteSets, TLC

\* ---------------------------------------------------------------- bounds
MaxRequests == 2        \* searchSelection calls in one behaviour
MaxChunks == 1          \* onProgress deliveries per backend call
MaxAborts == 1          \* abort() calls in one behaviour

Requests == 1..MaxRequests

\* ---------------------------------------------------------------- inputs
Prompts == {"fix"}
SettingsPrompts == {"", "fix"}
Selections == {"", "x=1"}
TimeoutInputs == {0, 30}
ErrorKinds == {"Error: fetch failed", "Error: timed out", "AbortError"}

NoAuth == [mode |-> "", apiKey |-> "", accessToken |-> "", proxyUrl |-> ""]
AuthInfos ==
    { NoAuth,
      [mode |-> "ChatGPTAPI", apiKey |-> "sk-1", accessToken |-> "", proxyUrl |-> ""],
      [mode |-> "ChatGPTAPI", apiKey |-> "", accessToken |-> "", proxyUrl |-> ""],
      [mode |-> "ChatGPTUnofficialProxyAPI", apiKey |-> "", accessToken |-> "tok", proxyUrl |-> "https://proxy"],
      [mode |-> "ChatGPTUnofficialProxyAPI", apiKey |-> "", accessToken |-> "tok", proxyUrl |-> ""] }

\* ---------------------------------------------------------------- state
VARIABLES
    chatGPTAPI,             \* _chatGPTAPI: NoAPI or the credentials it is bound to
    authInfo,               \* _authInfo
    conversation,           \* _conversation: NoConversation or the stored ids
    abortController,        \* _abortController: identity of the live controller
    aborted,                \* controllers whose signal has been fired
    response,               \* _response
    prompt,                 \* _prompt
    currentMessageNumber,   \* _currentMessageNumber
    workingState,           \* _workingState
    settings,               \* _settings
    configTimeoutLength,    \* configuration: the value of chatgpt.timeoutLength
    view,                   \* _view is set
    visible,                \* _view.visible
    loading,                \* the webview has not yet sent webviewLoaded
    reqs,                   \* per searchSelection call: position and locals
    nextReq,                \* number of searchSelection calls so far
    newest,                 \* the request whose backend call was started last
    shownWorkingState,      \* panel: value of the last setWorkingState message
    lastEvent,              \* the handler that ran last
    lastMsgs                \* the messages it posted, in order

vars == << chatGPTAPI, authInfo, conversation, abortController, aborted, response,
           prompt, currentMessageNumber, workingState, settings,
           configTimeoutLength, view, visible, loading, reqs, nextReq, newest,
           shownWorkingState, lastEvent, lastMsgs >>

\* ---------------------------------------------------------------- text
Str(s) == IF s = "" THEN << >> ELSE << s >>

\* the message without its inner quotes
ApiKeyErrorUnquoted ==
    << "[ERROR] API key not set or wrong, please go to extension settings to set it (read README.md for more info)" >>

ApiKeyError ==
    << "[ERROR] \"API key not set or wrong, please go to extension settings to set it (read README.md for more info)\"" >>

\* the error appended without the separator and [ERROR] marker
BareError(e) == << e >>

\* response += `\n\n---\n[ERROR] ${e}`
ErrorTrailer(e) == << "\n\n---\n[ERROR] ", e >>

\* partialResponse.text of the n-th progress event of request r's call
PartialText(r, n) == << "partial", ToString(r), ToString(n) >>
\* res.text of request r's call
ResultText(r) == << "answer", ToString(r) >>
\* {conversationId: res.conversationId, parentMessageId: res.id}
NoConversation == [conversationId |-> 0, parentMessageId |-> 0]
ResultConversation(r) == [conversationId |-> r, parentMessageId |-> r]

\* the three-backtick fence is written ~~~ : a TLA+ string holds no backtick
FenceOpen == "\n~~~\n"
FenceClose == "\n~~~"

\* the selection appended in the plain form whatever the setting says
BuildSearchPromptPlain(p, sel, inside) ==
    IF sel # "" THEN Str(p) \o << "\n", sel, "\n" >> ELSE Str(p)

BuildSearchPrompt(p, sel, inside) ==
    IF sel # ""
    THEN IF inside
         THEN Str(p) \o << FenceOpen, sel, FenceClose >>
         ELSE Str(p) \o << "\n", sel, "\n" >>
    ELSE Str(p)

\* ---------------------------------------------------------------- backend
NoAPI == [kind |-> "none", apiKey |-> "", accessToken |-> "", proxyUrl |-> ""]

\* the value of _chatGPTAPI after _newAPI ran with _authInfo = auth
NewAPI(auth, old) ==
    IF auth.mode = "ChatGPTAPI"
    THEN IF auth.apiKey = ""
         THEN old
         ELSE [kind |-> "ChatGPTAPI", apiKey |-> auth.apiKey,
               accessToken |-> "", proxyUrl |-> ""]
    ELSE IF auth.mode = "ChatGPTUnofficialProxyAPI"
         THEN IF auth.accessToken = "" \/ auth.proxyUrl = ""
              THEN old
              ELSE [kind |-> "ChatGPTUnofficialProxyAPI", apiKey |-> "",
                    accessToken |-> auth.accessToken, proxyUrl |-> auth.proxyUrl]
         ELSE old

\* ---------------------------------------------------------------- panel
Msg(t, v) == [type |-> t, value |-> v]

\* this._view?.webview.postMessage(...): dropped while there is no view
Post(hasView, msgs) == IF hasView THEN msgs ELSE << >>

RECURSIVE LastValue(_, _, _)
LastValue(msgs, t, default) ==
    IF msgs = << >> THEN default
    ELSE LET m == msgs[Len(msgs)]
         IN IF m.type = t THEN m.value
            ELSE LastValue(SubSeq(msgs, 1, Len(msgs) - 1), t, default)

Posts(msgs, t) == \E i \in 1..Len(msgs) : msgs[i].type = t

Deliver(msgs) ==
    /\ lastMsgs' = msgs
    /\ shownWorkingState' = LastValue(msgs, "setWorkingState", shownWorkingState)

\* the arguments of a sendMessage call
NoCall == [prompt |-> "", selection |-> "", searchPrompt |-> << >>, timeoutMs |-> 0,
           conversation |-> NoConversation, token |-> 0]

\* the handler that ran, the request it belongs to (0: none) and, for a backend
\* event, that request's record when the event arrived
Event(op, r, rec, call) == [op |-> op, req |-> r, rec |-> rec, call |-> call]

\* ---------------------------------------------------------------- requests
FreshRequest ==
    [pc |-> "new", prompt |-> "", tag |-> 0, token |-> 0, response |-> << >>,
     chunks |-> 0, forwarded |-> 0, stale |-> FALSE, resetSince |-> FALSE,
     authSince |-> FALSE]

\* a call that has returned keeps nothing
DoneRequest == [FreshRequest EXCEPT !.pc = "done"]

Outstanding(r) == reqs[r].pc = "sent"

\* the staleness test left out: every callback is taken for the current one
IsStaleNever(r) == FALSE

\* this._currentMessageNumber !== currentMessageNumber
IsStale(r) == currentMessageNumber # reqs[r].tag

\* config.get('timeoutLength') || 60
TimeoutSetting(v) == IF v = 0 THEN 60 ELSE v

\* ---------------------------------------------------------------- Init
\* the values activate() may read from the configuration
ConfiguredSettings ==
    [selectedInsideCodeblock : BOOLEAN, keepConversation : BOOLEAN,
     timeoutLength : {TimeoutSetting(t) : t \in TimeoutInputs}]

\* the same, with selectedInsideCodeblock and timeoutLength left at the values
\* the field initialiser gives them
DefaultSettings ==
    [selectedInsideCodeblock : {FALSE}, keepConversation : BOOLEAN, timeoutLength : {60}]

\* the state after the constructor and activate(): authentication info and
\* settings are taken from whatever the configuration holds
InitWith(configured, timeouts) ==
    /\ authInfo \in AuthInfos
    /\ chatGPTAPI = NewAPI(authInfo, NoAPI)
    /\ conversation = NoConversation
    /\ abortController = 0
    /\ aborted = {}
    /\ response = << >>
    /\ prompt = ""
    /\ currentMessageNumber = 0
    /\ workingState = "idle"
    /\ configTimeoutLength \in timeouts
    /\ settings \in {s \in configured :
                        s.timeoutLength = TimeoutSetting(configTimeoutLength)}
    /\ view = FALSE
    /\ visible = FALSE
    /\ loading = FALSE
    /\ reqs = [r \in Requests |-> FreshRequest]
    /\ nextReq = 0
    /\ newest = 0
    /\ shownWorkingState = "none"
    /\ lastEvent = Event("activate", 0, FreshRequest, NoCall)
    /\ lastMsgs = << >>

\* ---------------------------------------------------------------- helpers
\* history: a reset of the message number happened while r was outstanding
MarkReset(rs, auth) ==
    [r \in Requests |->
        IF rs[r].pc = "sent"
        THEN [rs[r] EXCEPT !.resetSince = TRUE, !.authSince = @ \/ auth]
        ELSE rs[r]]

\* (this._settings.timeoutLength || 60) * 1000
TimeoutMs(len) == (IF len = 0 THEN 60 ELSE len) * 1000

\* the controller kept after abort() instead of being replaced
SameAbortController(c) == c

\* this._abortController = new AbortController()
NewAbortController(c) == c + 1

\* ---------------------------------------------------------------- prompts
\* searchSelection from the line that reads the selection on, with
\* sendMessageAndGetResponse up to its await.  p is the local prompt,
\* thisPrompt/api/conv/num the fields as the preceding lines left them.
SendMessage(r, p, sel, thisPrompt, api, conv, num, vis, rs) ==
    LET sp == BuildSearchPrompt(p, sel, settings.selectedInsideCodeblock)
    IN IF api = NoAPI
          THEN /\ response' = ApiKeyError
               /\ currentMessageNumber' = num
               /\ workingState' = workingState
               /\ newest' = newest
               /\ reqs' = [rs EXCEPT ![r] = DoneRequest]
               /\ visible' = TRUE
               /\ lastEvent' = Event("noBackend", r, FreshRequest, NoCall)
               /\ Deliver(Post(view, << Msg("addResponse", ApiKeyError) >>))
          ELSE /\ response' = << >>
               /\ currentMessageNumber' = num + 1
               /\ workingState' = "asking"
               /\ newest' = r
               /\ reqs' = [rs EXCEPT ![r] =
                            [FreshRequest EXCEPT !.pc = "sent", !.tag = num + 1,
                                                 !.token = abortController]]
               /\ visible' = vis
               /\ lastEvent' = Event("dispatch", r, FreshRequest,
                                     [prompt |-> p, selection |-> sel,
                                      searchPrompt |-> sp,
                                      timeoutMs |-> TimeoutMs(settings.timeoutLength),
                                      conversation |-> conv,
                                      token |-> abortController])
               /\ Deliver(Post(view, << Msg("setPrompt", thisPrompt),
                                        Msg("setWorkingState", "asking") >>))

\* searchSelection(p) up to `await executeCommand('chatgpt.chatView.focus')`
\* when there is no view yet, and through to the backend call otherwise
SearchSelection(p) ==
    /\ nextReq < MaxRequests
    /\ LET r == nextReq + 1
           rebuilt == chatGPTAPI = NoAPI
           api == IF rebuilt THEN NewAPI(authInfo, chatGPTAPI) ELSE chatGPTAPI
           conv == IF rebuilt THEN NoConversation ELSE conversation
           num == IF rebuilt THEN 0 ELSE currentMessageNumber
           rs == IF rebuilt THEN MarkReset(reqs, FALSE) ELSE reqs
       IN /\ nextReq' = r
          /\ prompt' = p
          /\ chatGPTAPI' = api
          /\ conversation' = conv
          /\ IF view
             THEN \E sel \in Selections :
                     SendMessage(r, p, sel, p, api, conv, num, TRUE, rs)
             ELSE /\ reqs' = [rs EXCEPT ![r] = [@ EXCEPT !.pc = "focus", !.prompt = p]]
                  /\ currentMessageNumber' = num
                  /\ lastEvent' = Event("searchSelection", r, FreshRequest, NoCall)
                  /\ Deliver(<< >>)
                  /\ UNCHANGED << response, workingState, newest, visible >>
    /\ UNCHANGED << authInfo, abortController, aborted, settings, configTimeoutLength, view, loading >>

\* the continuation of searchSelection after the focus command resolved
FocusDone(r) ==
    /\ reqs[r].pc = "focus"
    /\ view
    /\ \E sel \in Selections :
          SendMessage(r, reqs[r].prompt, sel, prompt, chatGPTAPI, conversation,
                      currentMessageNumber, visible, reqs)
    /\ UNCHANGED << chatGPTAPI, authInfo, conversation, abortController, aborted,
                    prompt, settings, configTimeoutLength, view, loading, nextReq >>

\* ---------------------------------------------------------------- backend events
\* the partial text kept also when the panel is hidden and nothing is posted
ProgressKeepsHidden(r, limit) ==
    /\ Outstanding(r)
    /\ reqs[r].chunks < limit
    /\ LET n == reqs[r].chunks + 1
           shown == ~IsStale(r) /\ view /\ visible
       IN /\ reqs' = [reqs EXCEPT ![r] =
                        [@ EXCEPT !.chunks = n,
                                  !.forwarded = IF shown THEN n ELSE @,
                                  !.response = IF ~IsStale(r) THEN PartialText(r, n)
                                                              ELSE @]]
          /\ Deliver(IF shown THEN << Msg("addResponse", PartialText(r, n)) >> ELSE << >>)
    /\ lastEvent' = Event("progress", r, [reqs[r] EXCEPT !.stale = IsStale(r)], NoCall)
    /\ UNCHANGED << chatGPTAPI, authInfo, conversation, abortController, aborted,
                    response, prompt, currentMessageNumber, workingState,
                    settings, configTimeoutLength, view, visible, loading, nextReq, newest >>

\* the onProgress callback of request r's call, which delivers at most limit
\* partial texts; forwarded is the number of the last one posted to the panel
Progress(r, limit) ==
    /\ Outstanding(r)
    /\ reqs[r].chunks < limit
    /\ LET n == reqs[r].chunks + 1
           shown == ~IsStale(r) /\ view /\ visible
       IN /\ reqs' = [reqs EXCEPT ![r] =
                        [@ EXCEPT !.chunks = n,
                                  !.forwarded = IF shown THEN n ELSE @,
                                  !.response = IF shown THEN PartialText(r, n) ELSE @]]
          /\ Deliver(IF shown THEN << Msg("addResponse", PartialText(r, n)) >> ELSE << >>)
    /\ lastEvent' = Event("progress", r, [reqs[r] EXCEPT !.stale = IsStale(r)], NoCall)
    /\ UNCHANGED << chatGPTAPI, authInfo, conversation, abortController, aborted,
                    response, prompt, currentMessageNumber, workingState,
                    settings, configTimeoutLength, view, visible, loading, nextReq, newest >>

OnProgress(r) == Progress(r, MaxChunks)

\* sendMessage resolved: the lines after the await in the try block, and the tail
Success(r) ==
    /\ Outstanding(r)
    /\ IF IsStale(r)
       THEN /\ reqs' = [reqs EXCEPT ![r] = DoneRequest]
            /\ Deliver(Post(view, << Msg("setWorkingState", "idle") >>))
            /\ UNCHANGED << response, conversation, visible >>
       ELSE /\ reqs' = [reqs EXCEPT ![r] = DoneRequest]
            /\ conversation' = IF settings.keepConversation
                               THEN ResultConversation(r)
                               ELSE conversation
            /\ response' = ResultText(r)
            /\ visible' = IF view THEN TRUE ELSE visible
            /\ Deliver(Post(view, << Msg("setWorkingState", "idle"),
                                     Msg("addResponse", ResultText(r)) >>))
    /\ lastEvent' = Event("success", r, [reqs[r] EXCEPT !.stale = IsStale(r)], NoCall)
    /\ UNCHANGED << chatGPTAPI, authInfo, abortController, aborted, prompt,
                    currentMessageNumber, workingState, settings, configTimeoutLength, view, loading,
                    nextReq, newest >>

\* sendMessage rejected with e: the catch block, and the tail
Failure(r, e) ==
    /\ Outstanding(r)
    /\ e = "AbortError" => reqs[r].token \in aborted
    /\ LET final == reqs[r].response \o ErrorTrailer(e)
       IN /\ reqs' = [reqs EXCEPT ![r] = DoneRequest]
          /\ response' = final
          /\ Deliver(Post(view, << Msg("setWorkingState", "idle"),
                                   Msg("addResponse", final) >>))
    /\ visible' = IF view THEN TRUE ELSE visible
    /\ lastEvent' = Event("failure", r, [reqs[r] EXCEPT !.stale = IsStale(r)], NoCall)
    /\ UNCHANGED << chatGPTAPI, authInfo, conversation, abortController, aborted,
                    prompt, currentMessageNumber, workingState, settings, configTimeoutLength,
                    view, loading, nextReq, newest >>

\* ---------------------------------------------------------------- commands
\* abort()
Abort ==
    /\ abortController < MaxAborts
    /\ aborted' = aborted \cup {abortController}
    /\ abortController' = NewAbortController(abortController)
    /\ lastEvent' = Event("abort", 0, FreshRequest, NoCall)
    /\ Deliver(Post(view, << Msg("setWorkingState", "idle") >>))
    /\ UNCHANGED << chatGPTAPI, authInfo, conversation, response, prompt,
                    currentMessageNumber, workingState, settings, configTimeoutLength, view, visible,
                    loading, reqs, nextReq, newest >>

\* a reset that also puts the working state back to idle
ResetAlsoIdle(api, auth) ==
    /\ chatGPTAPI' = api
    /\ conversation' = NoConversation
    /\ currentMessageNumber' = 0
    /\ prompt' = ""
    /\ response' = << >>
    /\ reqs' = MarkReset(reqs, auth)
    /\ workingState' = "idle"
    /\ Deliver(Post(view, << Msg("setWorkingState", "idle"), Msg("setPrompt", ""),
                             Msg("addResponse", << >>) >>))
    /\ UNCHANGED << abortController, aborted, settings, configTimeoutLength, view, visible,
                    loading, nextReq, newest >>

\* the body of resetConversation(), after the backend handle became api
Reset(api, auth) ==
    /\ chatGPTAPI' = api
    /\ conversation' = NoConversation
    /\ currentMessageNumber' = 0
    /\ prompt' = ""
    /\ response' = << >>
    /\ reqs' = MarkReset(reqs, auth)
    /\ Deliver(Post(view, << Msg("setPrompt", ""), Msg("addResponse", << >>) >>))
    /\ UNCHANGED << abortController, aborted, workingState, settings, configTimeoutLength, view, visible,
                    loading, nextReq, newest >>

\* the chatgpt.resetConversation command
ResetConversation ==
    /\ Reset(chatGPTAPI, FALSE)
    /\ lastEvent' = Event("reset", 0, FreshRequest, NoCall)
    /\ UNCHANGED authInfo

\* onDidChangeConfiguration, first branch: mode, apiKey, accessToken or proxyUrl
AuthChange(a) ==
    /\ a # authInfo
    /\ authInfo' = a
    /\ Reset(NewAPI(a, chatGPTAPI), TRUE)
    /\ lastEvent' = Event("authChange", 0, FreshRequest, NoCall)

\* the patch stored in place of the settings: the fields it lacks read as unset
SettingChangeReplaces(patch) ==
    /\ settings' = [k \in DOMAIN settings |->
                      IF k \in DOMAIN patch THEN patch[k]
                      ELSE IF k = "timeoutLength" THEN 0 ELSE FALSE]
    /\ lastEvent' = Event("settingChange", 0, FreshRequest, NoCall)
    /\ Deliver(<< >>)
    /\ UNCHANGED << chatGPTAPI, authInfo, conversation, abortController, aborted,
                    response, prompt, currentMessageNumber, workingState,
                    view, visible, loading, reqs, nextReq, newest >>

\* onDidChangeConfiguration, the three setSettings branches
SettingChange(patch) ==
    /\ settings' = [k \in DOMAIN settings |->
                      IF k \in DOMAIN patch THEN patch[k] ELSE settings[k]]
    /\ lastEvent' = Event("settingChange", 0, FreshRequest, NoCall)
    /\ Deliver(<< >>)
    /\ UNCHANGED << chatGPTAPI, authInfo, conversation, abortController, aborted,
                    response, prompt, currentMessageNumber, workingState,
                    view, visible, loading, reqs, nextReq, newest >>

\* the user changed chatgpt.selectedInsideCodeblock
SelectedInsideCodeblockChange ==
    \E b \in BOOLEAN :
        /\ b # settings.selectedInsideCodeblock
        /\ SettingChange([selectedInsideCodeblock |-> b])
        /\ UNCHANGED configTimeoutLength

\* the user changed chatgpt.keepConversation
KeepConversationChange ==
    \E b \in BOOLEAN :
        /\ b # settings.keepConversation
        /\ SettingChange([keepConversation |-> b])
        /\ UNCHANGED configTimeoutLength

\* the user changed chatgpt.timeoutLength to v
TimeoutLengthChange ==
    \E v \in TimeoutInputs :
        /\ v # configTimeoutLength
        /\ configTimeoutLength' = v
        /\ SettingChange([timeoutLength |-> TimeoutSetting(v)])

\* ---------------------------------------------------------------- panel events
\* the host calls resolveWebviewView: the panel is opened, by the user or by
\* the chatgpt.chatView.focus command
ResolveWebviewView ==
    /\ ~view
    /\ view' = TRUE
    /\ visible' = TRUE
    /\ loading' = TRUE
    /\ lastEvent' = Event("resolveWebviewView", 0, FreshRequest, NoCall)
    /\ Deliver(<< >>)
    /\ UNCHANGED << chatGPTAPI, authInfo, conversation, abortController, aborted,
                    response, prompt, currentMessageNumber, workingState,
                    settings, configTimeoutLength, reqs, nextReq, newest >>

\* onDidReceiveMessage, case 'webviewLoaded'
WebviewLoaded ==
    /\ view
    /\ loading
    /\ loading' = FALSE
    /\ lastEvent' = Event("webviewLoaded", 0, FreshRequest, NoCall)
    /\ Deliver(<< Msg("setWorkingState", workingState) >>)
    /\ UNCHANGED << chatGPTAPI, authInfo, conversation, abortController, aborted,
                    response, prompt, currentMessageNumber, workingState,
                    settings, configTimeoutLength, view, visible, reqs, nextReq, newest >>

\* the user hides or reveals the panel (retainContextWhenHidden)
SetVisible(b) ==
    /\ view
    /\ visible # b
    /\ visible' = b
    /\ lastEvent' = Event("visibility", 0, FreshRequest, NoCall)
    /\ Deliver(<< >>)
    /\ UNCHANGED << chatGPTAPI, authInfo, conversation, abortController, aborted,
                    response, prompt, currentMessageNumber, workingState,
                    settings, configTimeoutLength, view, loading, reqs, nextReq, newest >>

\* ---------------------------------------------------------------- specification
Init == InitWith(DefaultSettings, {60})

\* prompts, backend events, abort, reset, authentication and keepConversation
\* changes, and the panel
Next ==
    \/ \E p \in Prompts : SearchSelection(p)
    \/ \E r \in Requests : FocusDone(r)
    \/ \E r \in Requests : OnProgress(r)
    \/ \E r \in Requests : Success(r)
    \/ \E r \in Requests, e \in ErrorKinds : Failure(r, e)
    \/ Abort
    \/ ResetConversation
    \/ \E a \in AuthInfos : AuthChange(a)
    \/ KeepConversationChange
    \/ ResolveWebviewView
    \/ WebviewLoaded
    \/ \E b \in BOOLEAN : SetVisible(b)

Spec == Init /\ [][Next]_vars

\* the settings watcher in full, with one prompt at a time
InitSettings == InitWith(ConfiguredSettings, TimeoutInputs)

NextSettings ==
    \/ \E p \in SettingsPrompts :
          (\A r \in Requests : ~Outstanding(r)) /\ SearchSelection(p)
    \/ \E r \in Requests : FocusDone(r)
    \/ \E r \in Requests : Success(r)
    \/ SelectedInsideCodeblockChange
    \/ KeepConversationChange
    \/ TimeoutLengthChange
    \/ ResolveWebviewView

SpecSettings == InitSettings /\ [][NextSettings]_vars

\* streaming and failure: calls that deliver one partial text more, with
\* abort, reset and a panel the user hides and reveals
NextStream ==
    \/ \E p \in Prompts : SearchSelection(p)
    \/ \E r \in Requests : FocusDone(r)
    \/ \E r \in Requests : Progress(r, MaxChunks + 1)
    \/ \E r \in Requests, e \in ErrorKinds : Failure(r, e)
    \/ Abort
    \/ ResetConversation
    \/ ResolveWebviewView
    \/ \E b \in BOOLEAN : SetVisible(b)

SpecStream == Init /\ [][NextStream]_vars

\* ================================================================ properties
BackendEvents == {"progress", "success", "failure"}

\* the last handler was a backend event of a request that a later dispatch had
\* superseded, with no reset or backend rebuild since that request's own dispatch
SupersededEvent(ops) ==
    /\ lastEvent.op \in ops
    /\ newest # lastEvent.req
    /\ ~lastEvent.rec.resetSince

PostsAsking(msgs) ==
    \E i \in 1..Len(msgs) : msgs[i].type = "setWorkingState" /\ msgs[i].value = "asking"

PostsIdle(msgs) ==
    \E i \in 1..Len(msgs) : msgs[i].type = "setWorkingState" /\ msgs[i].value = "idle"

\* C1: once prompt B has been dispatched while A's call is outstanding, and with
\* no reset or backend rebuild since A's dispatch, a progress callback or the
\* successful completion of A publishes no addResponse and changes neither the
\* stored response text nor the ConversationHandle; the text a progress or
\* completion does publish is text of the newest request's own call.
C1_SupersededProgressAndSuccessAreNoOps ==
    [][ /\ SupersededEvent({"progress", "success"})' =>
            /\ ~Posts(lastMsgs', "addResponse")
            /\ response' = response
            /\ conversation' = conversation
        /\ (lastEvent'.op \in {"progress", "success"} /\ ~lastEvent'.rec.resetSince) =>
              \A i \in 1..Len(lastMsgs') :
                  lastMsgs'[i].type = "addResponse" =>
                      /\ lastEvent'.req = newest'
                      /\ lastMsgs'[i].value \in
                            {ResultText(newest')}
                               \cup {PartialText(newest', n) : n \in 1..MaxChunks}
      ]_vars

\* A's call succeeds, stale, while B's call is still outstanding
C1_Witness ==
    /\ SupersededEvent({"success"})
    /\ lastEvent.rec.stale
    /\ Outstanding(newest)

\* C2: the failure of a superseded request is dropped: its partial text plus
\* error trailer is neither published as addResponse nor stored as the response.
C2_SupersededFailureIsDropped ==
    SupersededEvent({"failure"}) =>
        /\ ~Posts(lastMsgs, "addResponse")
        /\ \A e \in ErrorKinds : response # lastEvent.rec.response \o ErrorTrailer(e)

\* C3: while the newest request is outstanding and no abort was issued since its
\* dispatch, the working state last published to the panel is Asking.
C3_OnlyNewestSettlementShowsIdle ==
    (newest # 0 /\ Outstanding(newest) /\ reqs[newest].token = abortController)
        => shownWorkingState = "asking"

\* C4: an auth change while request G is outstanding clears the handle and the
\* counter, and G's result, whenever it arrives afterwards, sets no handle,
\* stores no response text and publishes no addResponse.
C4_ResultAfterAuthChangeIsStale ==
    /\ lastEvent.op = "authChange" =>
          (conversation = NoConversation /\ currentMessageNumber = 0)
    /\ (lastEvent.op = "success" /\ lastEvent.rec.authSince) =>
          /\ ~Posts(lastMsgs, "addResponse")
          /\ response # ResultText(lastEvent.req)
          /\ conversation # ResultConversation(lastEvent.req)

\* C5: a response that succeeds as the current generation while keepConversation
\* is false leaves the ConversationHandle cleared, so that the next request is
\* sent with an empty handle; a request is always sent with the stored handle.
C5_NoHandleWithoutKeepConversation ==
    /\ (lastEvent.op = "success" /\ ~lastEvent.rec.stale /\ ~settings.keepConversation)
          => conversation = NoConversation
    /\ (lastEvent.op = "success" /\ ~lastEvent.rec.stale /\ settings.keepConversation)
          => conversation = ResultConversation(lastEvent.req)
    /\ lastEvent.op = "dispatch" => lastEvent.call.conversation = conversation

\* C6: an abort during an outstanding request publishes Idle at once; the
\* failure of a request whose token was signalled stores and publishes the
\* partial text that request accumulated (none, or one of its own progress
\* texts) followed by the [ERROR] trailer; and no backend event of a signalled
\* request publishes Asking.
C6_AbortShowsIdleAndFailureAppendsTrailer ==
    /\ (lastEvent.op = "abort" /\ \E r \in Requests : Outstanding(r)) =>
          (lastMsgs = << Msg("setWorkingState", "idle") >> /\ shownWorkingState = "idle")
    /\ (lastEvent.op = "failure" /\ lastEvent.rec.token \in aborted) =>
          \E e \in ErrorKinds :
             LET final == lastEvent.rec.response \o << "\n\n---\n[ERROR] ", e >>
             IN /\ lastEvent.rec.response \in
                      {<< >>} \cup {PartialText(lastEvent.req, n) : n \in 1..MaxChunks}
                /\ response = final
                /\ lastMsgs[Len(lastMsgs)] = Msg("addResponse", final)
    /\ (lastEvent.op \in BackendEvents /\ lastEvent.rec.token \in aborted) =>
          ~PostsAsking(lastMsgs)

\* an aborted call rejects with AbortError after a partial text was shown
C6_Witness ==
    /\ lastEvent.op = "failure"
    /\ lastEvent.rec.token \in aborted
    /\ lastEvent.rec.response = PartialText(lastEvent.req, 1)
    /\ response = PartialText(lastEvent.req, 1) \o << "\n\n---\n[ERROR] ", "AbortError" >>
    /\ shownWorkingState = "idle"

\* C7: the live cancellation token is never a signalled one, a request is
\* dispatched with an unsignalled token, and the outstanding requests whose token
\* is signalled are exactly those dispatched before the last abort.
C7_AbortSignalsOnlyEarlierRequests ==
    /\ abortController \notin aborted
    /\ lastEvent.op = "dispatch" => lastEvent.call.token \notin aborted
    /\ \A r \in Requests :
          Outstanding(r) => (reqs[r].token \in aborted <=> reqs[r].token # abortController)

\* a request dispatched after an abort runs beside one that the abort signalled
C7_Witness ==
    \E a, b \in Requests :
        /\ Outstanding(a) /\ reqs[a].token \in aborted
        /\ Outstanding(b) /\ reqs[b].token \notin aborted
        /\ lastEvent.op = "dispatch" /\ lastEvent.req = b

\* C8: a prompt with no backend available calls no backend, leaves the message
\* number where it was (zero), stores and publishes exactly the configuration
\* error text, and leaves the working state Idle.
C8_NoBackendGivesConfigurationError ==
    lastEvent.op = "noBackend" =>
        LET text == << "[ERROR] \"API key not set or wrong, please go to extension settings to set it (read README.md for more info)\"" >>
        IN /\ chatGPTAPI = NoAPI
           /\ \A r \in Requests : ~Outstanding(r)
           /\ reqs[lastEvent.req].pc = "done"
           /\ currentMessageNumber = 0
           /\ response = text
           /\ lastMsgs = << Msg("addResponse", text) >>
           /\ workingState = "idle"
           /\ shownWorkingState # "asking"

\* a prompt issued after the auth info was replaced by an invalid one, still
\* with no backend
C8_Witness ==
    /\ lastEvent.op = "noBackend"
    /\ authInfo # NoAuth
    /\ shownWorkingState = "idle"

\* AuthConfig invariant: DirectApi needs apiKey, ProxyApi accessToken and proxyUrl
AuthComplete(a) ==
    \/ a.mode = "ChatGPTAPI" /\ a.apiKey # ""
    \/ a.mode = "ChatGPTUnofficialProxyAPI" /\ a.accessToken # "" /\ a.proxyUrl # ""

\* C9: after the backend is rebuilt from incomplete auth info there is no
\* backend handle, and a prompt issued while the auth info is incomplete gets
\* the configuration error without a backend call.
C9_IncompleteAuthLeavesNoBackend ==
    /\ (lastEvent.op = "authChange" /\ ~AuthComplete(authInfo)) => chatGPTAPI = NoAPI
    /\ (lastEvent.op = "dispatch" => AuthComplete(authInfo))

\* C10: once no request is outstanding or waiting to be dispatched, the panel
\* is not left showing Asking.
C10_IdleWhenNothingOutstanding ==
    (\A r \in Requests : reqs[r].pc \notin {"focus", "sent"})
        => shownWorkingState # "asking"

\* C11: the prompt text sent to the backend is the raw prompt alone when the
\* selection is empty, the raw prompt followed by the fenced selection when
\* selectedInsideCodeblock is set, and the raw prompt followed by newline,
\* selection, newline otherwise.
C11_EffectivePrompt ==
    lastEvent.op = "dispatch" =>
        LET p == lastEvent.call.prompt
            sel == lastEvent.call.selection
            raw == IF p = "" THEN << >> ELSE << p >>
        IN lastEvent.call.searchPrompt =
              IF sel = "" THEN raw
              ELSE IF settings.selectedInsideCodeblock
                   THEN raw \o << "\n~~~\n", sel, "\n~~~" >>
                   ELSE raw \o << "\n", sel, "\n" >>

\* "fix" with the selection "x=1" sent inside a code fence
C11_Witness ==
    /\ lastEvent.op = "dispatch"
    /\ settings.selectedInsideCodeblock
    /\ lastEvent.call.prompt = "fix"
    /\ lastEvent.call.selection = "x=1"
    /\ lastEvent.call.searchPrompt = << "fix", "\n~~~\n", "x=1", "\n~~~" >>

\* C12: two requests outstanding at the same time never carry the same
\* generation tag, and a backend event of a request dispatched before a reset
\* or backend rebuild is never taken for the current generation.
C12_OutstandingTagsDistinct ==
    /\ \A a, b \in Requests :
          (a # b /\ Outstanding(a) /\ Outstanding(b)) => reqs[a].tag # reqs[b].tag
    /\ (lastEvent.op \in BackendEvents /\ lastEvent.rec.resetSince) => lastEvent.rec.stale

\* C13: the working state stored by the provider, which webviewLoaded pushes,
\* equals the one last published to the panel; with no request outstanding
\* or waiting, webviewLoaded pushes Idle.
C13_StoredWorkingStateIsPublishedOne ==
    /\ shownWorkingState # "none" => workingState = shownWorkingState
    /\ (lastEvent.op = "webviewLoaded"
          /\ \A r \in Requests : reqs[r].pc \notin {"focus", "sent"})
          => lastMsgs = << Msg("setWorkingState", "idle") >>

\* C14: when the call of the newest request fails while that request is not
\* superseded, the response stored and published is the last partial text its
\* own progress callback posted to the panel (nothing if it posted none)
\* followed by the [ERROR] trailer with the error's text.
C14_FailureKeepsLastForwardedPartial ==
    (lastEvent.op = "failure" /\ lastEvent.req = newest /\ ~lastEvent.rec.stale) =>
        \E e \in ErrorKinds :
           LET k == lastEvent.rec.forwarded
               partial == IF k = 0 THEN << >>
                          ELSE << "partial", ToString(lastEvent.req), ToString(k) >>
               final == partial \o << "\n\n---\n[ERROR] ", e >>
           IN /\ response = final
              /\ lastMsgs = << Msg("setWorkingState", "idle"), Msg("addResponse", final) >>

\* the first partial text was posted, the second arrived while the panel was
\* hidden, then the call timed out
C14_Witness ==
    /\ lastEvent.op = "failure"
    /\ lastEvent.req = newest
    /\ ~lastEvent.rec.stale
    /\ lastEvent.rec.chunks = 2
    /\ lastEvent.rec.forwarded = 1
    /\ response = << "partial", ToString(newest), "1", "\n\n---\n[ERROR] ", "Error: timed out" >>

\* C15: a reset, by the command or after an authentication change, leaves the
\* conversation handle absent and the prompt and response empty, posts an empty
\* setPrompt and an empty addResponse to the panel, and changes neither the
\* working state (stored or shown), nor the settings, nor the backend handle
\* (the one just rebuilt, after an authentication change), whether or not a
\* request is outstanding.
C15_ResetFrame ==
    [][lastEvent'.op \in {"reset", "authChange"} =>
          /\ conversation' = NoConversation
          /\ prompt' = ""
          /\ response' = << >>
          /\ lastMsgs' = IF view THEN << [type |-> "setPrompt", value |-> ""],
                                        [type |-> "addResponse", value |-> << >>] >>
                                 ELSE << >>
          /\ workingState' = workingState
          /\ shownWorkingState' = shownWorkingState
          /\ settings' = settings
          /\ chatGPTAPI' = IF lastEvent'.op = "reset" THEN chatGPTAPI
                           ELSE NewAPI(authInfo', chatGPTAPI)
          /\ abortController' = abortController
          /\ \A r \in Requests : Outstanding(r) =>
                /\ reqs'[r].pc = "sent"
                /\ reqs'[r].response = reqs[r].response]_vars

\* the reset command taken while a request that already streamed a partial text
\* is outstanding and the panel shows Asking
C15_Witness ==
    /\ lastEvent.op = "reset"
    /\ view
    /\ workingState = "asking"
    /\ shownWorkingState = "asking"
    /\ response = << >>
    /\ \E r \in Requests : Outstanding(r) /\ reqs[r].resetSince /\ reqs[r].response # << >>

\* C16: a change of selectedInsideCodeblock, keepConversation or timeoutLength
\* in the configuration updates that one field of the settings and nothing
\* else: the other two fields, the backend handle, the conversation handle, the
\* message number, the working state, the stored prompt and response and the
\* requests stay as they are and nothing is posted, also while a request is
\* outstanding.
C16_SettingChangeFrame ==
    [][lastEvent'.op = "settingChange" =>
          /\ DOMAIN settings' = DOMAIN settings
          /\ IF configTimeoutLength' # configTimeoutLength
             THEN /\ settings'.timeoutLength =
                        (IF configTimeoutLength' = 0 THEN 60 ELSE configTimeoutLength')
                  /\ settings'.selectedInsideCodeblock = settings.selectedInsideCodeblock
                  /\ settings'.keepConversation = settings.keepConversation
             ELSE /\ settings'.timeoutLength = settings.timeoutLength
                  /\ (settings'.selectedInsideCodeblock # settings.selectedInsideCodeblock)
                        # (settings'.keepConversation # settings.keepConversation)
          /\ chatGPTAPI' = chatGPTAPI
          /\ authInfo' = authInfo
          /\ conversation' = conversation
          /\ currentMessageNumber' = currentMessageNumber
          /\ workingState' = workingState
          /\ shownWorkingState' = shownWorkingState
          /\ prompt' = prompt
          /\ response' = response
          /\ abortController' = abortController
          /\ reqs' = reqs
          /\ lastMsgs' = << >>]_vars

\* keepConversation switched off while a request is outstanding and a
\* conversation is stored
C16_Witness ==
    /\ lastEvent.op = "settingChange"
    /\ ~settings.keepConversation
    /\ conversation # NoConversation
    /\ workingState = "asking"
    /\ \E r \in Requests : Outstanding(r)

\* C17: the timeoutMs passed to sendMessage is the configured timeoutLength
\* times 1000, as configured at the time of the dispatch, for every value of
\* it, 0 included.
C17_TimeoutIsSecondsTimes1000 ==
    lastEvent.op = "dispatch" => lastEvent.call.timeoutMs = configTimeoutLength * 1000

====
